---- MODULE Spec2Model ----
(***************************************************************************)
(* Model of the UPC-A barcode generator component (BarcodeGenerator):      *)
(* upload parsing and validation, the size settings and their mapping to   *)
(* pixels and encoder options, the renderer, the chunked generation pass   *)
(* with its progress publications, and the zip export.                     *)
(*                                                                         *)
(* JavaScript runs one task at a time: an action of this model is one      *)
(* task of the event loop (a click handler together with the microtasks    *)
(* it schedules, a FileReader onload callback, a timer callback).          *)
(***************************************************************************)
EXTENDS Integers, Sequences, FiniteSets, TLC

\* ---------------------------------------------------------------- bounds
\* Longest uploaded file, in lines.
MaxLines == 3
\* Longest file uploaded while a generation pass is running.
MaxLinesDuringPass == 1
\* Chunk size of a generation pass. The source sets it to 50; the model
\* scales it down so that a list of MaxLines entries spans several chunks.
BATCH_SIZE == 2

\* ------------------------------------------------------ program constants
\* The repetition count of the regular expression /^\d{12}$/ and the length
\* tested by handleFileUpload.
UPC_DIGITS == 12

\* Lengths are kept in units of 1/10000 cm, the precision the size inputs
\* show (toFixed(4)).
CM == 10000
\* CM_TO_PIXEL = 118.11, as the fraction CM_TO_PIXEL_NUM / 100.
CM_TO_PIXEL_NUM == 11811
\* DEFAULT_WIDTH_CM = 2.2 and DEFAULT_HEIGHT_CM = 0.9557, in 1/10000 cm.
DEFAULT_WIDTH_CM == 22000
DEFAULT_HEIGHT_CM == 9557
\* generateSingleBarcode: margin, upcModules, the font size's floor and
\* divisor, and the padding taken off the bar height.
MARGIN == 10
UPC_MODULES == 95
MIN_FONT_SIZE == 14
FONT_DIVISOR == 10
BAR_PADDING == 5

\* ------------------------------------------------------------ characters
\* A string is a sequence of one-character strings (UTF-16 code units of
\* the basic plane). "U+0663" stands for ARABIC-INDIC DIGIT THREE, a
\* decimal digit that is not ASCII.
LF == "\n"
CR == "\r"
AsciiDigits == {"0", "1", "2", "3", "4", "5", "6", "7", "8", "9"}
\* The characters String.prototype.trim removes (those the model uses).
WhiteSpace == {" ", "\t", LF, CR}

NULL == "null"

\* ------------------------------------------------------------- validator
\* The class \d of a JavaScript regular expression: [0-9] only.
DigitClass == AsciiDigits

\* Matches \d{n} at position pos of s: the position after the match, or 0
\* when the match fails.
RECURSIVE MatchDigits(_, _, _)
MatchDigits(s, pos, n) ==
  IF n = 0 THEN pos
  ELSE IF pos > Len(s) THEN 0
  ELSE IF s[pos] \notin DigitClass THEN 0
  ELSE MatchDigits(s, pos + 1, n - 1)

EndAnchorBeforeNewline(s, pos) ==
  \/ pos = Len(s) + 1
  \/ pos = Len(s) /\ s[pos] = LF

\* The anchor $ without the m flag matches at the end of the input only.
EndAnchor(s, pos) == pos = Len(s) + 1

\* /^\d{12}$/.test(barcode): ^ anchors the match at position 1.
validateBarcode(barcode) ==
  LET end == MatchDigits(barcode, 1, UPC_DIGITS)
  IN  end # 0 /\ EndAnchor(barcode, end)

\* ---------------------------------------------------------------- upload
\* text.split('\n'): the pieces between line feeds (always at least one).
RECURSIVE Split(_, _)
Split(text, cur) ==
  IF text = <<>> THEN <<cur>>
  ELSE IF Head(text) = LF THEN <<cur>> \o Split(Tail(text), <<>>)
  ELSE Split(Tail(text), Append(cur, Head(text)))

RECURSIVE TrimStart(_)
TrimStart(s) ==
  IF s # <<>> /\ Head(s) \in WhiteSpace THEN TrimStart(Tail(s)) ELSE s

RECURSIVE TrimEnd(_)
TrimEnd(s) ==
  IF s # <<>> /\ s[Len(s)] \in WhiteSpace
  THEN TrimEnd(SubSeq(s, 1, Len(s) - 1)) ELSE s

\* line.trim()
Trim(s) == TrimEnd(TrimStart(s))

\* lines.filter(line => line.length > 0)
RECURSIVE NonEmpty(_)
NonEmpty(ls) ==
  IF ls = <<>> THEN <<>>
  ELSE IF Len(Head(ls)) > 0 THEN <<Head(ls)>> \o NonEmpty(Tail(ls))
  ELSE NonEmpty(Tail(ls))

ParseLines(text) ==
  LET pieces == Split(text, <<>>)
  IN  NonEmpty([k \in 1..Len(pieces) |-> Trim(pieces[k])])

ERR_LENGTH == "Invalid: must be 12 digits"
ERR_NUMERIC == "Invalid: must contain only numbers"
ERR_GENERATION == "Generation failed"

InvalidReasonDigitsFirst(line) ==
  IF \E k \in 1..Len(line) : line[k] \notin AsciiDigits
  THEN ERR_NUMERIC ELSE ERR_LENGTH

\* The reason given to a line that failed validation.
InvalidReason(line) ==
  IF Len(line) # UPC_DIGITS THEN ERR_LENGTH ELSE ERR_NUMERIC

\* The entry handleFileUpload makes of one line.
ProcessLine(line) ==
  LET isValid == validateBarcode(line)
  IN  [number |-> line,
       valid |-> isValid,
       error |-> IF isValid THEN NULL ELSE InvalidReason(line),
       dataUrl |-> NULL,
       svgString |-> NULL]

ProcessedBarcodes(text) ==
  LET lines == ParseLines(text)
  IN  [k \in 1..Len(lines) |-> ProcessLine(lines[k])]

\* ------------------------------------------------------------------ state
VARIABLES
  barcodes,         \* useState: the entry list
  isGenerating,     \* useState
  progress,         \* useState: [current, total]
  exportFormat,     \* useState: "png" or "svg"
  pc,               \* generateBarcodes: "idle", or "sleeping" in setTimeout
  i,                \* generateBarcodes: the loop variable
  updatedBarcodes,  \* generateBarcodes: the running copy of the list
  startBarcodes,    \* generateBarcodes: `barcodes` as its closure captured it
  currentFormat,    \* generateBarcodes: exportFormat as captured at the start
  showNumbers,      \* useState
  widthCm,          \* useState, in 1/10000 cm
  heightCm,         \* useState, in 1/10000 cm
  lockRatio,        \* useState
  currentShowNumbers, \* generateBarcodes: showNumbers as captured at the start
  currentDimensions,  \* generateBarcodes: dimensions as captured at the start
  rout,             \* <<>>, or <<the render just made on its own>>
  pubLog,           \* the chunk publications of the latest pass, in order
  archive,          \* <<>>, or <<files>>: the zip the last step handed to saveAs
  vline,            \* input of the validator runs
  vout,             \* <<>>, or <<result>> of the validator run
  vfile             \* <<>>, or <<file>>: the file handed to the upload area

vars == <<barcodes, isGenerating, progress, exportFormat, pc, i,
          updatedBarcodes, startBarcodes, currentFormat, pubLog,
          archive, vline, vout, showNumbers, widthCm, heightCm, lockRatio,
          currentShowNumbers, currentDimensions, rout, vfile>>

snapshotVars == <<currentFormat, currentShowNumbers, currentDimensions>>
passVars == <<pc, i, updatedBarcodes, startBarcodes, snapshotVars, pubLog>>
sizeVars == <<widthCm, heightCm, lockRatio>>
validatorVars == <<vline, vout, vfile>>

\* ----------------------------------------------------------------- inputs
CodeA == <<"0", "1", "2", "3", "4", "5", "6", "7", "8", "9", "0", "5">>
CodeB == <<"1", "2", "3", "4", "5", "6", "7", "8", "9", "0", "1", "3">>
Short == <<"b", "a", "d">>

\* The lines an uploaded file is made of.
FileLines == {CodeA, CodeB, Short}

Formats == {"png", "svg"}

RECURSIVE Join(_)
Join(ls) ==
  IF ls = <<>> THEN <<>>
  ELSE IF Len(ls) = 1 THEN Head(ls)
  ELSE Head(ls) \o <<LF>> \o Join(Tail(ls))

\* The files of at most max lines, lines separated by a line feed.
FilesUpTo(max) ==
  {Join(ls) : ls \in UNION {[1..n -> FileLines] : n \in 0..max}}

FileTexts == FilesUpTo(MaxLines)
\* The texts typed into the width input during a session.
SessionSizeInputs == {<<"3">>}

FileTextsDuringPass == FilesUpTo(MaxLinesDuringPass)

\* ------------------------------------------------------- dimension mapper
\* x * m / d rounded to the nearest integer (halves upwards, as Math.round
\* does), computed in pieces that stay within 32 bits; d * m < 2^31.
MulDivRound(x, m, d) ==
  LET q == x \div d
      r == x % d
  IN  q * m + (r * m + d \div 2) \div d

PxTruncates(cm) ==
  LET q == cm \div 1000000
      r == cm % 1000000
      a == (r \div 1000) * CM_TO_PIXEL_NUM
      b == (r % 1000) * CM_TO_PIXEL_NUM
  IN  q * CM_TO_PIXEL_NUM + a \div 1000
        + (1000 * (a % 1000) + b) \div 1000000

\* Math.round(cm * CM_TO_PIXEL) for a length in 1/10000 cm: the integer
\* nearest to cm * 11811 / 1000000, computed in pieces that stay within 32
\* bits.
Px(cm) ==
  LET q == cm \div 1000000
      r == cm % 1000000
      a == (r \div 1000) * CM_TO_PIXEL_NUM
      b == (r % 1000) * CM_TO_PIXEL_NUM
  IN  q * CM_TO_PIXEL_NUM + a \div 1000
        + (1000 * (a % 1000) + b + 500000) \div 1000000

\* The useMemo value `dimensions` for a width and a height.
DimensionsOf(w, h) ==
  [widthPx |-> Px(w), heightPx |-> Px(h), widthCm |-> w, heightCm |-> h]

dimensions == DimensionsOf(widthCm, heightCm)

\* newWidth / ASPECT_RATIO and newHeight * ASPECT_RATIO, where ASPECT_RATIO
\* is DEFAULT_WIDTH_CM / DEFAULT_HEIGHT_CM; the result is kept to 1/10000 cm.
DivideByAspectRatio(w) == MulDivRound(w, DEFAULT_HEIGHT_CM, DEFAULT_WIDTH_CM)
TimesAspectRatio(h) == MulDivRound(h, DEFAULT_WIDTH_CM, DEFAULT_HEIGHT_CM)

\* --------------------------------------------------------- size settings
\* A parsed number is <<n>>; NaN is the empty tuple.
NaN == <<>>

DigitValue(c) ==
  CASE c = "0" -> 0 [] c = "1" -> 1 [] c = "2" -> 2 [] c = "3" -> 3
    [] c = "4" -> 4 [] c = "5" -> 5 [] c = "6" -> 6 [] c = "7" -> 7
    [] c = "8" -> 8 [] c = "9" -> 9

\* The digits s starts with.
RECURSIVE LeadingDigits(_)
LeadingDigits(s) ==
  IF s # <<>> /\ Head(s) \in AsciiDigits
  THEN <<Head(s)>> \o LeadingDigits(Tail(s)) ELSE <<>>

\* The number a digit string writes.
RECURSIVE Decimal(_)
Decimal(ds) ==
  IF ds = <<>> THEN 0
  ELSE 10 * Decimal(SubSeq(ds, 1, Len(ds) - 1)) + DigitValue(ds[Len(ds)])

\* The fraction .ds in 1/10000: its first four decimals.
Fraction(ds) ==
  Decimal([k \in 1..4 |-> IF k <= Len(ds) THEN ds[k] ELSE "0"])

\* parseFloat for the plain decimal notation: an optional sign, digits, an
\* optional point and digits; what follows is ignored, and a string with
\* no digit where a number starts gives NaN.  The result is in 1/10000.
ParseUnsigned(s) ==
  LET int == LeadingDigits(s)
      rest == SubSeq(s, Len(int) + 1, Len(s))
      frac == IF rest # <<>> /\ Head(rest) = "."
              THEN LeadingDigits(Tail(rest)) ELSE <<>>
  IN  IF int = <<>> /\ frac = <<>> THEN NaN
      ELSE <<Decimal(int) * CM + Fraction(frac)>>

parseFloat(value) ==
  LET s == TrimStart(value)
  IN  IF s # <<>> /\ Head(s) = "-"
      THEN LET n == ParseUnsigned(Tail(s))
           IN  IF n = NaN THEN NaN ELSE <<0 - n[1]>>
      ELSE IF s # <<>> /\ Head(s) = "+" THEN ParseUnsigned(Tail(s))
      ELSE ParseUnsigned(s)

\* parseFloat(value) || fallback: NaN and 0 are falsy.
ParseOrDefault(value, fallback) ==
  LET n == parseFloat(value)
  IN  IF n = NaN THEN fallback ELSE IF n[1] = 0 THEN fallback ELSE n[1]

\* --------------------------------------------------------------- renderer
PNG_DATA == "data:image/png"
SVG_DATA == "<svg>"

\* JsBarcode(element, barcode.number, barcodeOptions) throws inside the try
\* for a code it cannot encode. The encoder is a function of the code: it
\* takes CodeA and refuses CodeB, whose last digit is not its check digit.
EncoderThrows(number) == number = CodeB

RenderFailedStaysValid(barcode) ==
  [barcode EXCEPT !.error = ERR_GENERATION,
                  !.dataUrl = NULL, !.svgString = NULL]

\* The catch branch of generateSingleBarcode.
RenderFailed(barcode) ==
  [barcode EXCEPT !.valid = FALSE, !.error = ERR_GENERATION,
                  !.dataUrl = NULL, !.svgString = NULL]

Max(a, b) == IF a >= b THEN a ELSE b

\* Math.floor(a / b) for b > 0.
FloorDiv(a, b) == a \div b

TOTAL_MODULES == UPC_MODULES + 2 * MARGIN

barWidthUnfloored(widthPx) == FloorDiv(widthPx, TOTAL_MODULES)

barWidth(widthPx) == Max(1, FloorDiv(widthPx, TOTAL_MODULES))

fontSize(heightPx, showNum) ==
  IF showNum THEN Max(MIN_FONT_SIZE, FloorDiv(heightPx, FONT_DIVISOR)) ELSE 0

barHeight(heightPx, showNum) ==
  heightPx - fontSize(heightPx, showNum) - 2 * MARGIN - BAR_PADDING

barcodeOptions(dims, showNum) ==
  [format |-> "UPC", displayValue |-> showNum,
   width |-> barWidth(dims.widthPx),
   height |-> barHeight(dims.heightPx, showNum),
   margin |-> MARGIN,
   fontSize |-> fontSize(dims.heightPx, showNum)]

\* The size of the drawing JsBarcode makes for the options: the modules
\* and the margins across, the bars, the text and the margins down; never
\* negative.
EncoderSize(options) ==
  [width |-> options.width * UPC_MODULES + 2 * options.margin,
   height |-> Max(0, options.height + options.fontSize + 2 * options.margin)]

\* The size the comment above barWidth reckons with: UPC-A's 95 modules
\* and a margin of 10 on each side, 115 modules of the bar width across.
LayoutSize(options) ==
  [width |-> options.width * TOTAL_MODULES,
   height |-> EncoderSize(options).height]

\* A canvas holds the width and height it is assigned when these are not
\* negative, and the element's default otherwise.
CANVAS_DEFAULT_WIDTH == 300
CANVAS_DEFAULT_HEIGHT == 150
CanvasLength(value, default) == IF value >= 0 THEN value ELSE default

NewCanvas(width, height) ==
  [width |-> CanvasLength(width, CANVAS_DEFAULT_WIDTH),
   height |-> CanvasLength(height, CANVAS_DEFAULT_HEIGHT)]

\* The paint operations on the encoder's canvas, in order: JsBarcode draws
\* the bars, then fillRect(0, 0, canvas.width, canvas.height) in white.
FILL_CANVAS == [op |-> "fillRect", fillStyle |-> "white"]

EncoderCanvasPaint(options) ==
  <<[op |-> "JsBarcode", options |-> options], FILL_CANVAS>>

\* drawImage(canvas, x, y): the picture of the source canvas, at its own
\* size.
drawImage(paint, native, x, y) ==
  [op |-> "drawImage", x |-> x, y |-> y,
   width |-> native.width, height |-> native.height, source |-> paint]

FinalCanvasTopLeft(native, dims, options) ==
  LET finalCanvas == NewCanvas(dims.widthPx, dims.heightPx)
  IN  [width |-> finalCanvas.width, height |-> finalCanvas.height,
       x |-> 0, y |-> 0, drawn |-> TRUE, options |-> options,
       paint |-> <<FILL_CANVAS,
                   drawImage(EncoderCanvasPaint(options), native, 0, 0)>>]

\* The png branch after JsBarcode has drawn a canvas of the native size:
\* the canvas the data URL is taken from, with the paint operations made
\* on it.
FinalCanvas(native, dims, options) ==
  IF native.width # dims.widthPx \/ native.height # dims.heightPx
  THEN LET finalCanvas == NewCanvas(dims.widthPx, dims.heightPx)
           x == FloorDiv(dims.widthPx - native.width, 2)
           y == FloorDiv(dims.heightPx - native.height, 2)
       IN  [width |-> finalCanvas.width, height |-> finalCanvas.height,
            x |-> x, y |-> y, drawn |-> TRUE, options |-> options,
            paint |-> <<FILL_CANVAS,
                        drawImage(EncoderCanvasPaint(options), native, x, y)>>]
  ELSE [width |-> native.width, height |-> native.height,
        x |-> 0, y |-> 0, drawn |-> FALSE, options |-> options,
        paint |-> EncoderCanvasPaint(options)]

\* parseInt(attribute) || fallback
OrElse(value, fallback) == IF value = 0 THEN fallback ELSE value

\* The svg branch after JsBarcode has drawn a document of the native size.
FinalSvg(native, dims, options) ==
  LET actualWidth == OrElse(native.width, dims.widthPx)
      actualHeight == OrElse(native.height, dims.heightPx)
      moved == actualWidth # dims.widthPx \/ actualHeight # dims.heightPx
  IN  [width |-> dims.widthPx, height |-> dims.heightPx,
       viewBox |-> <<0, 0, dims.widthPx, dims.heightPx>>,
       x |-> IF moved THEN FloorDiv(dims.widthPx - actualWidth, 2) ELSE 0,
       y |-> IF moved THEN FloorDiv(dims.heightPx - actualHeight, 2) ELSE 0,
       options |-> options]

\* The picture a sequence of paint operations leaves on a canvas holds the
\* bars: the last operation drew them, or drew a picture holding them, or
\* was not a fill of the whole canvas and the picture held them before.
RECURSIVE ShowsBars(_)
ShowsBars(paint) ==
  IF paint = <<>> THEN FALSE
  ELSE LET last == paint[Len(paint)]
           before == SubSeq(paint, 1, Len(paint) - 1)
       IN  CASE last.op = "JsBarcode" -> TRUE
             [] last.op = "fillRect" -> FALSE
             [] last.op = "drawImage" ->
                  ShowsBars(last.source) \/ ShowsBars(before)

\* What the encoder's options make of the drawing.
Drawing(options) ==
  <<options.displayValue, options.width, options.height, options.fontSize>>

\* The data URL writes the picture of the canvas: its size, and the bars,
\* if they show, where they are and as the options made them. The call
\* evaluates its argument once.
toDataURL(canvas) ==
  LET written == [c \in {canvas} |->
                    PNG_DATA \o ToString(<<c.width, c.height>>
                                           \o IF ShowsBars(c.paint)
                                              THEN <<c.x, c.y>>
                                                     \o Drawing(c.options)
                                              ELSE <<>>)]
  IN  written[canvas]

\* The markup writes the size attributes, the viewBox, the translation of
\* the group and the drawing.
outerHTML(svg) ==
  LET written == [s \in {svg} |->
                    SVG_DATA \o ToString(<<s.width, s.height>> \o s.viewBox
                                           \o <<s.x, s.y>>
                                           \o Drawing(s.options))]
  IN  written[svg]

\* The try branch of generateSingleBarcode for an encoder drawing of the
\* given native size: the artifact it returns.
Artifact(format, dims, showNum, native) ==
  IF format = "png"
  THEN toDataURL(FinalCanvas(native, dims, barcodeOptions(dims, showNum)))
  ELSE outerHTML(FinalSvg(native, dims, barcodeOptions(dims, showNum)))

generateSingleBarcode(barcode, format, dims, showNum) ==
  IF EncoderThrows(barcode.number) THEN RenderFailed(barcode)
  ELSE LET native == EncoderSize(barcodeOptions(dims, showNum))
       IN  IF format = "png"
           THEN [barcode EXCEPT
                   !.dataUrl = Artifact(format, dims, showNum, native),
                   !.svgString = NULL]
           ELSE [barcode EXCEPT
                   !.dataUrl = NULL,
                   !.svgString = Artifact(format, dims, showNum, native)]

\* -------------------------------------------------------------- scheduler
Min(a, b) == IF a <= b THEN a ELSE b

ValidCount(list) == Cardinality({k \in 1..Len(list) : list[k].valid})

\* updatedBarcodes.slice(at, at + BATCH_SIZE), `at` counted from 0.
Slice(list, at) == SubSeq(list, at + 1, Min(at + BATCH_SIZE, Len(list)))

\* if (!barcode.valid) return barcode
Skips(barcode) == ~barcode.valid

ProcessOneRendersInvalid(barcode, snapshot) ==
  generateSingleBarcode(barcode, snapshot.format, snapshot.dimensions,
                        snapshot.showNumbers)

\* The callback of batch.map: invalid entries pass through untouched.
\* `snapshot` is the triple [format, dimensions, showNumbers] of the pass.
ProcessOne(barcode, snapshot) ==
  IF Skips(barcode) THEN barcode
  ELSE generateSingleBarcode(barcode, snapshot.format, snapshot.dimensions,
                             snapshot.showNumbers)

\* The orders in which the n promises of a chunk can settle.
Orders(n) ==
  {o \in [1..n -> 1..n] : \A a, b \in 1..n : a # b => o[a] # o[b]}

\* Promise.all: each promise's value is stored at the promise's own index,
\* whatever the order in which the promises settle.
RECURSIVE SettleByIndex(_, _, _, _)
SettleByIndex(values, batch, order, snapshot) ==
  IF order = <<>> THEN values
  ELSE SettleByIndex(
         [values EXCEPT
            ![Head(order)] = ProcessOne(batch[Head(order)], snapshot)],
         batch, Tail(order), snapshot)

RECURSIVE SettleInCompletionOrder(_, _, _, _)
SettleInCompletionOrder(values, batch, order, snapshot) ==
  IF order = <<>> THEN values
  ELSE SettleInCompletionOrder(
         Append(values, ProcessOne(batch[Head(order)], snapshot)),
         batch, Tail(order), snapshot)

PromiseAllInCompletionOrder(batch, order, snapshot) ==
  SettleInCompletionOrder(<<>>, batch, order, snapshot)

\* await Promise.all(batch.map(...)): processedBatch.
PromiseAll(batch, order, snapshot) ==
  SettleByIndex(batch, batch, order, snapshot)

\* processedBatch.forEach((b, batchIndex) => updated[at + batchIndex] = b)
WriteBack(updated, at, processedBatch) ==
  [k \in 1..Len(updated) |->
     IF k > at /\ k <= at + Len(processedBatch)
     THEN processedBatch[k - at] ELSE updated[k]]

ProcessChunkAbortsOnThrow(updated, at, order, snapshot) ==
  LET batch == Slice(updated, at)
  IN  IF \E k \in 1..Len(batch) :
           batch[k].valid /\ EncoderThrows(batch[k].number)
      THEN updated
      ELSE WriteBack(updated, at, PromiseAll(batch, order, snapshot))

\* One iteration of the loop body, up to the publication.
ProcessChunk(updated, at, order, snapshot) ==
  LET batch == Slice(updated, at)
  IN  WriteBack(updated, at, PromiseAll(batch, order, snapshot))

\* The first argument of setProgress after a chunk.
PublishedCurrent(at, updated) == Min(at + BATCH_SIZE, ValidCount(updated))

\* The places in the list, counted from 1, of the entries of the chunk at
\* `at` that the callback hands to generateSingleBarcode.
RenderCalls(updated, at) ==
  {at + k : k \in {j \in 1..Len(Slice(updated, at)) :
                     ~Skips(Slice(updated, at)[j])}}

\* The loop body from the slice to the setTimeout: render the chunk, merge
\* it, publish the list and the progress, go to sleep.
RunChunk(at, updated, start, snapshot, log) ==
  \E order \in Orders(Len(Slice(updated, at))) :
  \E next \in {ProcessChunk(updated, at, order, snapshot)} :
    LET pub == [current |-> PublishedCurrent(at, next),
                total |-> ValidCount(start)]
    IN  /\ updatedBarcodes' = next
        /\ barcodes' = next
        /\ progress' = pub
        /\ i' = at
        /\ pc' = "sleeping"
        /\ pubLog' = Append(log, [current |-> pub.current,
                                  total |-> pub.total, at |-> at,
                                  rendered |-> RenderCalls(updated, at)])

\* ---------------------------------------------------------------- exporter
\* zip.file(name, data): JSZip keeps one file per name; a second file of
\* the same name replaces the first.
ZipFile(zip, name) == zip \cup {name}

\* The condition under which an entry is added, and the file's name.
AddsFileWithoutArtifact(barcode, format) == barcode.valid

AddsFile(barcode, format) ==
  /\ barcode.valid
  /\ \/ format = "png" /\ barcode.dataUrl # NULL
     \/ format = "svg" /\ barcode.svgString # NULL

FileName(barcode, format) == <<barcode.number, format>>

\* barcodes.forEach(...) of downloadZip.
RECURSIVE BuildZip(_, _, _)
BuildZip(zip, list, format) ==
  IF list = <<>> THEN zip
  ELSE BuildZip(IF AddsFile(Head(list), format)
                THEN ZipFile(zip, FileName(Head(list), format)) ELSE zip,
                Tail(list), format)

HasArtifact(barcode) == barcode.dataUrl # NULL \/ barcode.svgString # NULL

canDownload ==
  /\ ValidCount(barcodes) > 0
  /\ \E k \in 1..Len(barcodes) : barcodes[k].valid /\ HasArtifact(barcodes[k])

\* ---------------------------------------------------------------- actions
SessionInit ==
  /\ barcodes = <<>>
  /\ isGenerating = FALSE
  /\ progress = [current |-> 0, total |-> 0]
  /\ exportFormat = "png"
  /\ pc = "idle"
  /\ i = 0
  /\ updatedBarcodes = <<>>
  /\ startBarcodes = <<>>
  /\ currentFormat = NULL
  /\ currentShowNumbers = NULL
  /\ currentDimensions = NULL
  /\ showNumbers = TRUE
  /\ widthCm = DEFAULT_WIDTH_CM
  /\ heightCm = DEFAULT_HEIGHT_CM
  /\ lockRatio = TRUE
  /\ pubLog = <<>>
  /\ archive = <<>>

Init ==
  /\ SessionInit
  /\ vline = <<>>
  /\ vout = <<>>
  /\ rout = <<>>
  /\ vfile = <<>>

\* Characters the test lines are made with, besides those of CodeA.
TestChars == {"7", "a", " ", "-", LF, CR, "U+0663"}

ReplaceAt(s, p, c) == [s EXCEPT ![p] = c]

\* CodeA with one character replaced, CodeA cut short, CodeA with one
\* character before or after it, and a line that is neither 12 long nor
\* made of digits.
TestLines ==
  {CodeA, CodeB, Short}
  \cup {ReplaceAt(CodeA, p, c) : p \in 1..UPC_DIGITS, c \in TestChars}
  \cup {SubSeq(CodeA, 1, n) : n \in 0..(UPC_DIGITS - 1)}
  \cup {Append(CodeA, c) : c \in TestChars}
  \cup {<<c>> \o CodeA : c \in TestChars}

\* The ways a text file ends its lines: LF, CR LF, and CR alone.
LineEndings == {<<LF>>, <<CR, LF>>, <<CR>>}

\* Two codes on two lines, and the same with blanks around the first code,
\* a blank line between the two and a line ending after the last, in each
\* line-ending convention.
TestTexts ==
  {CodeA \o sep \o CodeB : sep \in LineEndings}
  \cup {<<" ">> \o CodeA \o <<" ">> \o sep \o sep \o CodeB \o sep :
          sep \in LineEndings}

\* ProcessedBarcodes on the files of the model, computed once.
ParsedFile ==
  [text \in FileTexts \cup TestLines \cup TestTexts |->
     ProcessedBarcodes(text)]

\* reader.onload of handleFileUpload, for a file of the given text.
handleFileUpload(text) ==
  /\ barcodes' = ParsedFile[text]
  /\ progress' = [current |-> 0, total |-> 0]
  /\ archive' = <<>>
  /\ rout' = <<>>
  /\ UNCHANGED <<isGenerating, exportFormat, showNumbers, sizeVars>>
  /\ UNCHANGED passVars
  /\ UNCHANGED validatorVars

\* A file is dropped or picked, and read: the upload area takes files at
\* any time, also while a pass is running.
Upload ==
  \E text \in IF pc = "idle" THEN FileTexts ELSE FileTextsDuringPass :
    handleFileUpload(text)

\* onChange of the format selector.
setExportFormat(format) ==
  /\ format # exportFormat
  /\ exportFormat' = format
  /\ archive' = <<>>
  /\ rout' = <<>>
  /\ UNCHANGED <<barcodes, isGenerating, progress, showNumbers, sizeVars>>
  /\ UNCHANGED passVars
  /\ UNCHANGED validatorVars

ChangeFormat == \E format \in Formats : setExportFormat(format)

\* onChange of the Show Numbers checkbox.
setShowNumbers(checked) ==
  /\ checked # showNumbers
  /\ showNumbers' = checked
  /\ archive' = <<>>
  /\ rout' = <<>>
  /\ UNCHANGED <<barcodes, isGenerating, progress, exportFormat, sizeVars>>
  /\ UNCHANGED passVars
  /\ UNCHANGED validatorVars

ChangeShowNumbers == \E checked \in BOOLEAN : setShowNumbers(checked)

\* onChange of the width input.  The text of the input (widthInput,
\* heightInput, isUpdatingRef) is display state and is left out.
handleWidthChange(value) ==
  LET newWidth == ParseOrDefault(value, DEFAULT_WIDTH_CM)
  IN  /\ widthCm' = newWidth
      /\ heightCm' = IF lockRatio THEN DivideByAspectRatio(newWidth)
                     ELSE heightCm
      /\ archive' = <<>>
      /\ rout' = <<>>
      /\ UNCHANGED <<barcodes, isGenerating, progress, exportFormat,
                     showNumbers, lockRatio>>
      /\ UNCHANGED passVars
      /\ UNCHANGED validatorVars

\* onChange of the height input.
handleHeightChange(value) ==
  LET newHeight == ParseOrDefault(value, DEFAULT_HEIGHT_CM)
  IN  /\ heightCm' = newHeight
      /\ widthCm' = IF lockRatio THEN TimesAspectRatio(newHeight)
                    ELSE widthCm
      /\ archive' = <<>>
      /\ rout' = <<>>
      /\ UNCHANGED <<barcodes, isGenerating, progress, exportFormat,
                     showNumbers, lockRatio>>
      /\ UNCHANGED passVars
      /\ UNCHANGED validatorVars

\* onClick of the lock button.
ToggleLockRatio ==
  /\ lockRatio' = ~lockRatio
  /\ archive' = <<>>
  /\ rout' = <<>>
  /\ UNCHANGED <<barcodes, isGenerating, progress, exportFormat,
                 showNumbers, widthCm, heightCm>>
  /\ UNCHANGED passVars
  /\ UNCHANGED validatorVars

\* The width input is edited during a session.
ChangeWidth == \E value \in SessionSizeInputs : handleWidthChange(value)

\* A click on the generate button (shown when some entry is valid, disabled
\* while generating): generateBarcodes up to its first setTimeout.
generateBarcodes ==
  /\ ValidCount(barcodes) > 0
  /\ ~isGenerating
  /\ isGenerating' = TRUE
  /\ startBarcodes' = barcodes
  /\ currentDimensions' = dimensions
  /\ currentFormat' = exportFormat
  /\ currentShowNumbers' = showNumbers
  /\ RunChunk(0, barcodes, barcodes,
              [format |-> exportFormat, dimensions |-> dimensions,
               showNumbers |-> showNumbers], <<>>)
  /\ archive' = <<>>
  /\ rout' = <<>>
  /\ UNCHANGED <<exportFormat, showNumbers, sizeVars>>
  /\ UNCHANGED validatorVars

NextChunkLiveSettings ==
  /\ pc = "sleeping"
  /\ i + BATCH_SIZE < Len(updatedBarcodes)
  /\ RunChunk(i + BATCH_SIZE, updatedBarcodes, startBarcodes,
              [format |-> exportFormat, dimensions |-> dimensions,
               showNumbers |-> showNumbers], pubLog)
  /\ archive' = <<>>
  /\ rout' = <<>>
  /\ UNCHANGED <<isGenerating, exportFormat, showNumbers, sizeVars>>
  /\ UNCHANGED <<startBarcodes, snapshotVars>>
  /\ UNCHANGED validatorVars

\* The timer of the loop fires and another chunk is left.
NextChunk ==
  /\ pc = "sleeping"
  /\ i + BATCH_SIZE < Len(updatedBarcodes)
  /\ RunChunk(i + BATCH_SIZE, updatedBarcodes, startBarcodes,
              [format |-> currentFormat, dimensions |-> currentDimensions,
               showNumbers |-> currentShowNumbers], pubLog)
  /\ archive' = <<>>
  /\ rout' = <<>>
  /\ UNCHANGED <<isGenerating, exportFormat, showNumbers, sizeVars>>
  /\ UNCHANGED <<startBarcodes, snapshotVars>>
  /\ UNCHANGED validatorVars

FinishPassStaysGenerating ==
  /\ pc = "sleeping"
  /\ ~(i + BATCH_SIZE < Len(updatedBarcodes))
  /\ progress' = [current |-> 0, total |-> 0]
  /\ pc' = "idle"
  /\ i' = 0
  /\ updatedBarcodes' = <<>>
  /\ startBarcodes' = <<>>
  /\ currentFormat' = NULL
  /\ currentShowNumbers' = NULL
  /\ currentDimensions' = NULL
  /\ pubLog' = <<>>
  /\ archive' = <<>>
  /\ rout' = <<>>
  /\ UNCHANGED <<barcodes, isGenerating, exportFormat, showNumbers, sizeVars>>
  /\ UNCHANGED validatorVars

\* The timer of the loop fires after the last chunk: the pass ends, and
\* the locals of generateBarcodes are gone.
FinishPass ==
  /\ pc = "sleeping"
  /\ ~(i + BATCH_SIZE < Len(updatedBarcodes))
  /\ isGenerating' = FALSE
  /\ progress' = [current |-> 0, total |-> 0]
  /\ pc' = "idle"
  /\ i' = 0
  /\ updatedBarcodes' = <<>>
  /\ startBarcodes' = <<>>
  /\ currentFormat' = NULL
  /\ currentShowNumbers' = NULL
  /\ currentDimensions' = NULL
  /\ pubLog' = <<>>
  /\ archive' = <<>>
  /\ rout' = <<>>
  /\ UNCHANGED <<barcodes, exportFormat, showNumbers, sizeVars>>
  /\ UNCHANGED validatorVars

\* A click on the download button (shown when canDownload, disabled while
\* generating).
downloadZip ==
  /\ canDownload
  /\ ~isGenerating
  /\ archive' = <<BuildZip({}, barcodes, exportFormat)>>
  /\ rout' = <<>>
  /\ UNCHANGED <<barcodes, isGenerating, progress, exportFormat>>
  /\ UNCHANGED <<showNumbers, sizeVars>>
  /\ UNCHANGED passVars
  /\ UNCHANGED validatorVars

Next ==
  \/ Upload
  \/ ChangeFormat
  \/ ChangeShowNumbers
  \/ ChangeWidth
  \/ generateBarcodes
  \/ NextChunk
  \/ FinishPass
  \/ downloadZip

Spec == Init /\ [][Next]_vars

\* ------------------------------------------------ the passes over one file
\* A session in which one file is uploaded and then generated any number
\* of times, other files being dropped while a pass runs.
UploadFirst ==
  /\ barcodes = <<>>
  /\ pc = "idle"
  /\ \E text \in FileTexts : handleFileUpload(text)

UploadDuringPass ==
  /\ pc # "idle"
  /\ \E text \in FileTextsDuringPass : handleFileUpload(text)

NextPass ==
  \/ UploadFirst
  \/ UploadDuringPass
  \/ generateBarcodes
  \/ NextChunk
  \/ FinishPass

\* Every render call returns within its chunk's step, and the 10 ms timer
\* between the chunks fires: a pass that sleeps is resumed.
FairSpecPass ==
  Init /\ [][NextPass]_vars /\ WF_vars(NextChunk) /\ WF_vars(FinishPass)

\* ------------------------------------------- the settings and one render
\* The texts the size inputs hand to their handlers: a number input gives
\* the empty string for anything that is not a number.
SizeInputs ==
  {<<>>, <<"0">>, <<"-", "5">>, <<"0", ".", "2">>, <<"1">>, <<"3">>,
   <<"2", "0", ".", "9">>, <<"3", "0">>, <<"1", "0", "0">>}

ChangeWidthTo == \E value \in SizeInputs : handleWidthChange(value)

ChangeHeightTo == \E value \in SizeInputs : handleHeightChange(value)

\* The sizes of the drawing the encoder may hand back: the one its options
\* lay out, with the margins in pixels or in modules, the target size
\* itself, and an empty drawing.
NativeSizes(dims, options) ==
  {n \in {EncoderSize(options),
          LayoutSize(options),
          [width |-> dims.widthPx, height |-> dims.heightPx],
          [width |-> 0, height |-> 0]} :
     n.width >= 0 /\ n.height >= 0}

\* generateSingleBarcode run once with the settings as they are, on a code
\* the encoder takes: the try branch up to the artifact.
RenderOnce ==
  /\ rout = <<>>
  /\ \E native \in NativeSizes(dimensions,
                                barcodeOptions(dimensions, showNumbers)) :
       rout' = <<[format |-> exportFormat,
                  dims |-> dimensions,
                  showNum |-> showNumbers,
                  options |-> barcodeOptions(dimensions, showNumbers),
                  native |-> native,
                  canvas |-> FinalCanvas(native, dimensions,
                               barcodeOptions(dimensions, showNumbers)),
                  svg |-> FinalSvg(native, dimensions,
                            barcodeOptions(dimensions, showNumbers)),
                  artifact |-> Artifact(exportFormat, dimensions,
                                        showNumbers, native)]>>
  /\ archive' = <<>>
  /\ UNCHANGED <<barcodes, isGenerating, progress, exportFormat,
                 showNumbers, sizeVars>>
  /\ UNCHANGED passVars
  /\ UNCHANGED validatorVars

NextSettings ==
  \/ ChangeWidthTo
  \/ ChangeHeightTo
  \/ ToggleLockRatio
  \/ ChangeShowNumbers
  \/ ChangeFormat
  \/ RenderOnce

SpecSettings == Init /\ [][NextSettings]_vars

\* ------------------------------------------------- the validator on its own
InitValidate ==
  /\ SessionInit
  /\ vline \in TestLines \cup TestTexts
  /\ vout = <<>>
  /\ rout = <<>>
  /\ vfile = <<>>

\* validateBarcode applied to the line as it is.
Validate ==
  /\ vout = <<>>
  /\ vout' = <<validateBarcode(vline)>>
  /\ UNCHANGED <<barcodes, isGenerating, progress, exportFormat, archive>>
  /\ UNCHANGED <<vline, vfile, rout, showNumbers, sizeVars>>
  /\ UNCHANGED passVars

\* reader.onload of handleFileUpload for the file whose text is the line.
UploadLine == handleFileUpload(vline)

NextValidate ==
  \/ Validate
  \/ UploadLine

SpecValidate == InitValidate /\ [][NextValidate]_vars

\* ------------------------------------------------- the two upload paths
TEXT_PLAIN == "text/plain"

\* The types of the files handed to the upload area: a text file, an
\* image, and a file whose type the browser does not know.
FileTypes == {TEXT_PLAIN, "image/png", ""}

\* A file: its type, and what readAsText reads from it.
Files == [type : FileTypes, text : FileTexts]

\* onDrop of the upload area.  The alert of the else branch changes no
\* state.
handleDrop(file) ==
  IF file.type = TEXT_PLAIN
  THEN handleFileUpload(file.text)
  ELSE UNCHANGED vars

\* onChange of the hidden file input.
handleFileInputChange(file) == handleFileUpload(file.text)

InitUpload ==
  /\ SessionInit
  /\ vline = <<>>
  /\ vout = <<>>
  /\ rout = <<>>
  /\ vfile \in {<<file>> : file \in Files}

\* The file is dropped on the upload area.
DropFile == handleDrop(vfile[1])

\* The file is chosen in the file picker.
PickFile == handleFileInputChange(vfile[1])

\* A session with one file, handed to the upload area any number of times
\* on either path, before, during and after the passes.
NextUpload ==
  \/ DropFile
  \/ PickFile
  \/ generateBarcodes
  \/ NextChunk
  \/ FinishPass

SpecUpload == InitUpload /\ [][NextUpload]_vars

\* ----------------------------------------------------------------- claims
\* The entries downloadZip is expected to export.
Exportable(list) ==
  {k \in 1..Len(list) : list[k].valid /\ HasArtifact(list[k])}

\* The last chunk of the running pass has been published.
LastChunkDone ==
  pc = "sleeping" /\ ~(i + BATCH_SIZE < Len(updatedBarcodes))

\* The entries of the pass's list handled by the chunks up to the one that
\* starts at `at`.
HandledUpTo(at) == 1..Min(at + BATCH_SIZE, Len(startBarcodes))

\* C1: after a pass, the archive downloadZip builds holds exactly one file
\* per entry that is valid and has an artifact: as many files as such
\* entries, whatever the codes and the export format at download time.
C1_ArchiveOneFilePerEntry ==
  archive # <<>> =>
    Cardinality(archive[1]) = Cardinality(Exportable(barcodes))

\* C2: every file of the archive is named <number>.<ext> for an entry that
\* is valid and holds the artifact of that format; invalid entries and
\* entries without an artifact add no file.
C2_ArchiveOnlyRenderedEntries ==
  archive # <<>> =>
    \A f \in archive[1] :
      \E k \in 1..Len(barcodes) :
        /\ f = <<barcodes[k].number, exportFormat>>
        /\ barcodes[k].valid
        /\ IF f[2] = "png" THEN barcodes[k].dataUrl # NULL
                           ELSE barcodes[k].svgString # NULL

\* C2's case: an archive with a file, built from a list that also holds an
\* entry whose render failed and an entry that failed validation.
C2_Witness ==
  /\ archive # <<>>
  /\ archive[1] # {}
  /\ \E k \in 1..Len(barcodes) : barcodes[k].error = ERR_GENERATION
  /\ \E k \in 1..Len(barcodes) : barcodes[k].error = ERR_LENGTH

\* C3: within a pass, Progress.current never decreases from one chunk
\* publication to the next.
C3_CurrentNonDecreasing ==
  \A k \in 1..(Len(pubLog) - 1) : pubLog[k].current <= pubLog[k + 1].current

\* C4: over a pass, Progress.current equals Progress.total in exactly one
\* chunk publication, the one of the final chunk.
C4_CurrentReachesTotalOnceAtEnd ==
  LastChunkDone =>
    {k \in 1..Len(pubLog) : pubLog[k].current = pubLog[k].total} = {Len(pubLog)}

\* C5: the current published after a chunk is the number of entries, valid
\* when the pass started, that the chunks so far have rendered or tried to.
C5_CurrentCountsProcessedValid ==
  \A k \in 1..Len(pubLog) :
    pubLog[k].current =
      Cardinality({j \in HandledUpTo(pubLog[k].at) : startBarcodes[j].valid})

\* C6: always 0 <= current <= total, and throughout a pass total is the
\* number of entries that were valid when the pass started.
C6_ProgressBounds ==
  /\ 0 <= progress.current
  /\ progress.current <= progress.total
  /\ pc = "sleeping" => progress.total = ValidCount(startBarcodes)

\* A step that publishes a chunk.
Publishes == pubLog' # pubLog /\ pubLog' # <<>>

\* C7: every chunk publication publishes a list as long as the list the
\* pass started with and with the same code at every index, in whatever
\* order the renders of the chunk completed; the end of the pass leaves
\* the list as it is.
C7_PassPreservesShape ==
  [][/\ Publishes =>
          /\ Len(barcodes') = Len(startBarcodes')
          /\ \A k \in 1..Len(barcodes') :
               barcodes'[k].number = startBarcodes'[k].number
     /\ (pc = "sleeping" /\ pc' = "idle") => barcodes' = barcodes]_vars

\* C7's case: the second chunk of a pass has just been published, and the
\* first chunk held two valid entries of different codes.
C7_Witness ==
  /\ pc = "sleeping"
  /\ Len(pubLog) = 2
  /\ barcodes = updatedBarcodes
  /\ startBarcodes[1].valid /\ startBarcodes[2].valid
  /\ startBarcodes[1].number # startBarcodes[2].number

\* C8: validateBarcode is true of a line exactly when the line is 12
\* characters long and each of them is one of the ASCII digits 0-9.
C8_ValidIffTwelveAsciiDigits ==
  vout # <<>> =>
    (vout[1] <=> /\ Len(vline) = 12
                 /\ \A k \in 1..Len(vline) : vline[k] \in AsciiDigits)

\* C8's case: the validator has refused the 12 digits followed by a line
\* feed.
C8_Witness ==
  /\ vout = <<FALSE>>
  /\ vline = Append(CodeA, LF)

\* C9: an invalid line's reason is chosen by length first: the wrong-length
\* reason whenever the length is not 12, even with non-digits in the line,
\* the non-numeric reason only at length 12; a valid line has no error.
C9_ReasonLengthFirst ==
  \A k \in 1..Len(barcodes) :
    LET e == barcodes[k]
    IN  /\ e.valid => e.error = NULL
        /\ (~e.valid /\ Len(e.number) # 12) => e.error = ERR_LENGTH
        /\ (~e.valid /\ Len(e.number) = 12) => e.error = ERR_NUMERIC

\* C9's case: an uploaded line that is both of the wrong length and not
\* numeric carries the wrong-length reason.
C9_Witness ==
  \E k \in 1..Len(barcodes) :
    /\ Len(barcodes[k].number) = 13
    /\ \E p \in 1..13 : barcodes[k].number[p] \notin AsciiDigits
    /\ barcodes[k].error = ERR_LENGTH

\* What a pass makes of an entry it has handled.
Rendered(before, after, format) ==
  /\ after.number = before.number
  /\ after.valid
  /\ after.error = before.error
  /\ IF format = "png" THEN after.dataUrl # NULL ELSE after.svgString # NULL

Downgraded(before, after) ==
  after = [number |-> before.number, valid |-> FALSE,
           error |-> ERR_GENERATION, dataUrl |-> NULL, svgString |-> NULL]

\* C10: a render that throws changes its own entry only (invalid, the
\* generation-failure reason, no artifact); the pass goes on, and every
\* other valid entry of the chunks handled so far is rendered.
C10_FailureIsolated ==
  pc = "sleeping" =>
    /\ Len(updatedBarcodes) = Len(startBarcodes)
    /\ \A k \in 1..Len(startBarcodes) :
         LET before == startBarcodes[k]
             after == updatedBarcodes[k]
         IN  IF k \in HandledUpTo(i) /\ before.valid
             THEN IF EncoderThrows(before.number)
                  THEN Downgraded(before, after)
                  ELSE Rendered(before, after, currentFormat)
             ELSE after = before

\* C10's case: the pass is through its last chunk; the first entry's render
\* threw, and the other entry of its chunk and an entry of the next chunk
\* were rendered all the same.
C10_Witness ==
  /\ LastChunkDone
  /\ Len(updatedBarcodes) = 3
  /\ updatedBarcodes[1].error = ERR_GENERATION
  /\ updatedBarcodes[2].valid /\ HasArtifact(updatedBarcodes[2])
  /\ updatedBarcodes[3].valid /\ HasArtifact(updatedBarcodes[3])

\* C11: in every reachable state, whatever the uploads, the passes with
\* their successes and failures, and the settings changes before, every
\* entry that holds an artifact (dataUrl or svgString) is valid.
C11_ArtifactOnlyIfValid ==
  \A k \in 1..Len(barcodes) : HasArtifact(barcodes[k]) => barcodes[k].valid

\* C11's case: after a settings change, a list with a rendered entry, an
\* entry whose render failed and an entry that failed validation.
C11_Witness ==
  /\ ~showNumbers
  /\ widthCm # DEFAULT_WIDTH_CM
  /\ \E k \in 1..Len(barcodes) : HasArtifact(barcodes[k])
  /\ \E k \in 1..Len(barcodes) : barcodes[k].error = ERR_GENERATION
  /\ \E k \in 1..Len(barcodes) : barcodes[k].error = ERR_LENGTH

\* The step changes a setting: the export format, showNumbers, the width,
\* the height or the ratio lock.
SettingsChange ==
  \/ exportFormat' # exportFormat
  \/ showNumbers' # showNumbers
  \/ widthCm' # widthCm
  \/ heightCm' # heightCm
  \/ lockRatio' # lockRatio

\* C12: a settings change clears the artifacts of all entries: right after
\* a step that changes a setting, no entry holds an artifact.
C12_SettingsChangeClearsArtifacts ==
  [][SettingsChange =>
       \A k \in 1..Len(barcodes') : ~HasArtifact(barcodes'[k])]_vars

\* The entry holds the artifact of a render with the given settings, and
\* that artifact only.
RenderedWith(entry, format, dims, showNum) ==
  LET artifact ==
        Artifact(format, dims, showNum,
                 EncoderSize(barcodeOptions(dims, showNum)))
  IN  IF format = "png"
      THEN entry.dataUrl = artifact /\ entry.svgString = NULL
      ELSE entry.svgString = artifact /\ entry.dataUrl = NULL

\* C13: the entries rendered in one pass are all rendered with the same
\* dimensions, format and showNumbers, the ones in effect when the pass
\* started: a step that runs a chunk leaves every entry rendered so far in
\* the pass holding the artifact of the captured triple, and the captured
\* triple is the settings of the click for the first chunk and unchanged
\* for a later one, whatever the settings are by then.
C13_PassUsesStartSettings ==
  [][pubLog' # pubLog /\ pc' = "sleeping" =>
       /\ IF pc = "idle"
          THEN /\ currentFormat' = exportFormat
               /\ currentDimensions' = dimensions
               /\ currentShowNumbers' = showNumbers
          ELSE UNCHANGED snapshotVars
       /\ \A k \in 1..Min(i' + BATCH_SIZE, Len(startBarcodes')) :
            (startBarcodes'[k].valid
               /\ ~EncoderThrows(startBarcodes'[k].number)) =>
              RenderedWith(updatedBarcodes'[k], currentFormat',
                           currentDimensions', currentShowNumbers')]_vars

\* C13's case: the second chunk of a pass has rendered an entry after the
\* format, showNumbers and the width were all changed during the pass.
C13_Witness ==
  /\ pc = "sleeping"
  /\ Len(pubLog) = 2
  /\ exportFormat # currentFormat
  /\ showNumbers # currentShowNumbers
  /\ dimensions # currentDimensions
  /\ HasArtifact(updatedBarcodes[1])
  /\ HasArtifact(updatedBarcodes[3])

\* C14: every started pass eventually completes, given that the timer
\* between the chunks fires, and the step that completes it leaves
\* isGenerating false and the progress at {current: 0, total: 0}.
C14_PassCompletes ==
  /\ (pc = "sleeping") ~> (pc = "idle")
  /\ [][pc = "sleeping" /\ pc' = "idle" =>
          /\ ~isGenerating'
          /\ progress' = [current |-> 0, total |-> 0]]_vars

\* C14's case: a pass over three entries, two chunks, has completed.
C14_Witness ==
  /\ pc = "idle"
  /\ ~isGenerating
  /\ progress = [current |-> 0, total |-> 0]
  /\ Len(barcodes) = 3
  /\ HasArtifact(barcodes[1])
  /\ HasArtifact(barcodes[3])

\* C15: the artifact of a successful render has exactly the target pixel
\* size, whatever native size the encoder produced: the raster image is
\* widthPx by heightPx, and the vector document declares width widthPx,
\* height heightPx and the viewBox 0 0 widthPx heightPx.
C15_ArtifactHasTargetSize ==
  rout # <<>> =>
    LET r == rout[1]
    IN  IF r.format = "png"
        THEN /\ r.canvas.width = r.dims.widthPx
             /\ r.canvas.height = r.dims.heightPx
        ELSE /\ r.svg.width = r.dims.widthPx
             /\ r.svg.height = r.dims.heightPx
             /\ r.svg.viewBox = <<0, 0, r.dims.widthPx, r.dims.heightPx>>

\* px is what Math.round gives for cm * num / (1000 * den), cm in 1/10000
\* cm: the difference cm * num - 1000 * den * px lies in
\* [-500 * den, 500 * den).  The difference is taken in two pieces.
RoundOf(px, cm, num, den) ==
  LET hi == cm \div 1000
      lo == cm % 1000
      inner == hi * num - den * px
  IN  /\ inner >= 0 - (den + num)
      /\ inner <= den + num
      /\ 1000 * inner + lo * num >= 0 - 500 * den
      /\ 1000 * inner + lo * num < 500 * den

\* The default size maps to 260 x 113 px.
DefaultSizeMapping ==
  (widthCm = DEFAULT_WIDTH_CM /\ heightCm = DEFAULT_HEIGHT_CM) =>
    (dimensions.widthPx = 260 /\ dimensions.heightPx = 113)

\* C16 as stated: each pixel dimension is round(cm * dpi / 2.54) for the
\* constant dpi = 118.11, and the default size maps to 260 x 113 px.
C16_PxIsRoundCmDpiOver254 ==
  /\ RoundOf(dimensions.widthPx, widthCm, CM_TO_PIXEL_NUM, 2540)
  /\ RoundOf(dimensions.heightPx, heightCm, CM_TO_PIXEL_NUM, 2540)
  /\ DefaultSizeMapping

\* C16, amended: each pixel dimension is round(cm * 118.11), the constant
\* being pixels per centimetre (300 dpi / 2.54, kept to two decimals) and
\* not divided by 2.54 again, for every stored width and height; the
\* default size maps to 260 x 113 px.
C16_PxIsRoundCmTimesPixelsPerCm ==
  /\ RoundOf(dimensions.widthPx, widthCm, CM_TO_PIXEL_NUM, 1000)
  /\ RoundOf(dimensions.heightPx, heightCm, CM_TO_PIXEL_NUM, 1000)
  /\ DefaultSizeMapping

\* C16's case: the width 20.9 cm, where cm * 118.11 rounds to 2468 px (and
\* cm * 300 / 2.54 would round to 2469), with a height typed on its own.
C16_Witness ==
  /\ widthCm = 209000
  /\ dimensions.widthPx = 2468
  /\ heightCm = 30000
  /\ dimensions.heightPx = 354

\* C17: the bar height passed to the encoder is strictly greater than zero
\* for every target height reachable through the settings inputs, with or
\* without the numbers shown.
C17_BarHeightPositive ==
  rout # <<>> => rout[1].options.height > 0

\* C18: the encoder parameters are a function of widthPx, heightPx and
\* showNumbers: the bar width is max(1, floor(widthPx / 115)), and the font
\* size is max(14, floor(heightPx / 10)) with the numbers shown and 0
\* without.  floor(a / b) = q is stated as b * q <= a < b * (q + 1).
C18_EncoderParameters ==
  rout # <<>> =>
    LET r == rout[1]
        w == r.options.width
        f == r.options.fontSize
    IN  /\ IF r.dims.widthPx >= 115
           THEN 115 * w <= r.dims.widthPx /\ r.dims.widthPx < 115 * (w + 1)
           ELSE w = 1
        /\ IF ~r.showNum THEN f = 0
           ELSE IF r.dims.heightPx >= 140
           THEN 10 * f <= r.dims.heightPx /\ r.dims.heightPx < 10 * (f + 1)
           ELSE f = 14
        /\ r.options.displayValue = r.showNum

\* C18's case: a target below 115 px wide, where the bar width is held at
\* 1, and 354 px high with the numbers shown, where the font size is 35.
C18_Witness ==
  /\ rout # <<>>
  /\ rout[1].dims.widthPx = 24
  /\ rout[1].options.width = 1
  /\ rout[1].showNum
  /\ rout[1].dims.heightPx = 354
  /\ rout[1].options.fontSize = 35

\* C19: whatever the width and height inputs and the lock toggles, widthCm
\* stays within [1, 30] and heightCm within [0.5, 30].
C19_SizesWithinRange ==
  /\ 1 * CM <= widthCm /\ widthCm <= 30 * CM
  /\ CM \div 2 <= heightCm /\ heightCm <= 30 * CM

\* The lines of a text in which a line ends at LF, at CR LF or at CR alone.
RECURSIVE SplitLines(_, _)
SplitLines(text, cur) ==
  IF text = <<>> THEN <<cur>>
  ELSE IF Head(text) = CR /\ Len(text) >= 2 /\ text[2] = LF
  THEN <<cur>> \o SplitLines(Tail(Tail(text)), <<>>)
  ELSE IF Head(text) \in {LF, CR}
  THEN <<cur>> \o SplitLines(Tail(text), <<>>)
  ELSE SplitLines(Tail(text), Append(cur, Head(text)))

\* The non-blank lines of a text, trimmed, in file order.
NonBlankLines(text) ==
  LET lines == SplitLines(text, <<>>)
  IN  NonEmpty([k \in 1..Len(lines) |-> Trim(lines[k])])

\* C20: parsing an uploaded text yields exactly one entry per non-blank
\* line, in file order, each entry's number being the line without its
\* leading and trailing whitespace, for LF, CR LF and CR-only line endings.
C20_OneEntryPerLine ==
  barcodes # <<>> =>
    [k \in 1..Len(barcodes) |-> barcodes[k].number] = NonBlankLines(vline)

\* C21: a file whose type is not plain text is rejected before any parsing
\* on both upload paths, the drop and the picker: no step of a session
\* with such a file changes the entry list or the progress.
C21_UnsupportedTypeRejected ==
  [][vfile[1].type # TEXT_PLAIN => UNCHANGED <<barcodes, progress>>]_vars

\* The entries the running pass has handed to the renderer so far.
RenderedInPass ==
  UNION {pubLog[k].rendered : k \in 1..Len(pubLog)}

\* C22: an entry whose render failed is not retried within that pass: no
\* entry is handed to the renderer by two chunks of one pass; and it is
\* attempted again by the next pass the user starts: once a pass is
\* through its last chunk, every entry that entered the pass with the
\* generation-failure reason has been handed to the renderer.
C22_FailedRetriedByNextPass ==
  /\ \A a, b \in 1..Len(pubLog) :
       a # b => pubLog[a].rendered \cap pubLog[b].rendered = {}
  /\ LastChunkDone =>
       \A k \in 1..Len(startBarcodes) :
         startBarcodes[k].error = ERR_GENERATION => k \in RenderedInPass

\* C23: in the raster path the white background lies beneath the bars: on
\* the canvas that is exported no white fill of the whole canvas comes
\* after the encoder's drawing, so the exported image holds the bars,
\* both when the native size is the target size and when it is not.
C23_RasterKeepsBars ==
  (rout # <<>> /\ rout[1].format = "png") =>
    ShowsBars(rout[1].canvas.paint)

\* The stored size is within the range of the settings: the width in
\* [1, 30] cm, the height in [0.5, 30] cm.
InSettingsRange(dims) ==
  /\ 1 * CM <= dims.widthCm /\ dims.widthCm <= 30 * CM
  /\ CM \div 2 <= dims.heightCm /\ dims.heightCm <= 30 * CM

\* offset = floor((target - native) / 2)
Centered(offset, target, native) ==
  2 * offset <= target - native /\ target - native < 2 * offset + 2

\* C24: when the encoder's native size differs from the target, the native
\* drawing is put on the target canvas unscaled, at the offset
\* (floor((widthPx - nativeW) / 2), floor((heightPx - nativeH) / 2)), in
\* the raster and in the vector path; and for every target size within the
\* settings range, the native width being barWidth x 115, both offsets are
\* at least 0 and the drawing lies within the canvas.
C24_CenteredUnscaledInside ==
  rout # <<>> =>
    LET r == rout[1]
        nativeW == OrElse(r.native.width, r.dims.widthPx)
        nativeH == OrElse(r.native.height, r.dims.heightPx)
        differs == IF r.format = "png"
                   THEN \/ r.native.width # r.dims.widthPx
                        \/ r.native.height # r.dims.heightPx
                   ELSE nativeW # r.dims.widthPx \/ nativeH # r.dims.heightPx
        at == IF r.format = "png" THEN r.canvas ELSE r.svg
    IN  differs =>
          /\ IF r.format = "png"
             THEN /\ Centered(at.x, r.dims.widthPx, r.native.width)
                  /\ Centered(at.y, r.dims.heightPx, r.native.height)
                  /\ LET image == r.canvas.paint[Len(r.canvas.paint)]
                     IN  /\ image.op = "drawImage"
                         /\ image.x = at.x /\ image.y = at.y
                         /\ image.width = r.native.width
                         /\ image.height = r.native.height
             ELSE /\ Centered(at.x, r.dims.widthPx, nativeW)
                  /\ Centered(at.y, r.dims.heightPx, nativeH)
          /\ (/\ InSettingsRange(r.dims)
              /\ r.native.width = r.options.width * 115) =>
                /\ at.x >= 0
                /\ at.y >= 0
                /\ at.x + nativeW <= r.dims.widthPx
                /\ at.y + nativeH <= r.dims.heightPx

\* C24's case: a raster render of a target 354 px wide whose native
\* drawing, 3 x 115 px wide and 5 px lower than the target, is put at the
\* offset (4, 2).
C24_Witness ==
  /\ rout # <<>>
  /\ rout[1].format = "png"
  /\ InSettingsRange(rout[1].dims)
  /\ rout[1].dims.widthPx = 354
  /\ rout[1].native.width = 345
  /\ rout[1].native.height = rout[1].dims.heightPx - 5
  /\ rout[1].canvas.x = 4
  /\ rout[1].canvas.y = 2

\* The step runs a chunk of a pass.
ChunkStep == pubLog' # pubLog /\ pc' = "sleeping"

\* An entry as a parse makes it: the entry the parse of its own line
\* gives, validated and without artifact.
Fresh(entry) == <<entry>> = ParsedFile[entry.number]

\* C25: a pass leaves every entry that was invalid completely unchanged,
\* and what it revises of valid and error in the others is only valid
\* true to false with the generation-failure reason; and no other
\* operation revises an entry: a step that is not a chunk of a pass leaves
\* the list as it is or replaces it with a freshly parsed one.
C25_PassRevisesOnlyFailures ==
  [][/\ ChunkStep =>
          LET before == IF pc = "idle" THEN barcodes ELSE updatedBarcodes
              after == updatedBarcodes'
          IN  /\ Len(after) = Len(before)
              /\ \A k \in 1..Len(before) :
                   /\ after[k].number = before[k].number
                   /\ ~before[k].valid => after[k] = before[k]
                   /\ before[k].valid =>
                        \/ after[k].valid /\ after[k].error = before[k].error
                        \/ ~after[k].valid /\ after[k].error = ERR_GENERATION
     /\ ~ChunkStep =>
          \/ barcodes' = barcodes
          \/ \A k \in 1..Len(barcodes') : Fresh(barcodes'[k])]_vars

\* C25's case: a pass is through its last chunk over a list with an entry
\* that failed validation, an entry whose render failed in an earlier pass
\* and an entry it rendered.
C25_Witness ==
  /\ LastChunkDone
  /\ Len(startBarcodes) = 3
  /\ \E k \in 1..3 : startBarcodes[k].error = ERR_LENGTH
  /\ \E k \in 1..3 : startBarcodes[k].error = ERR_GENERATION
  /\ \E k \in 1..3 : startBarcodes[k].valid /\ HasArtifact(updatedBarcodes[k])

\* A file has been uploaded since the running pass last published: the
\* session's list is no longer the pass's copy, or the progress is back at
\* 0 / 0.
UploadedDuringPass ==
  /\ pc = "sleeping"
  /\ barcodes # updatedBarcodes \/ progress.total = 0

====
